---- MODULE Spec2Model ----
(***************************************************************************)
(* PubSubPeerDiscovery (src/network/p2p/pubsub_peer_discovery.rs):         *)
(* the start/stop lifecycle, the spawned broadcast scheduler, the swarm    *)
(* event handler and broadcast(), with the two tokio mutexes (the swarm    *)
(* and the stop signal) and every .await as an interleaving point.         *)
(*                                                                         *)
(* Task 0 (Main) is the task that owns the PubSubPeerDiscovery value and   *)
(* calls start(), stop() (&mut self) and handle() (&self) on it, one call  *)
(* at a time.  Tasks 1..MaxSpawn are the tasks created by tokio::spawn in  *)
(* start().                                                                *)
(***************************************************************************)
EXTENDS Integers, FiniteSets

\* ---- bounds of the model ------------------------------------------------
MaxSpawn == 2       \* tokio::spawn calls explored
MaxLag == 0         \* how far a due tick may fall behind before time stops passing

\* ---- tasks, peers, topics, events ---------------------------------------
Main == 0
Scheds == 1..MaxSpawn
Tasks == {Main} \cup Scheds

LocalPeer == "local"
Peers == {"local", "peerA"}

Topics == {"T", "t"}

\* values of `interval` explored, in clock units
Intervals == {1, 2}

NoEvent == [kind |-> "None", topic |-> "-", source |-> "-"]

\* SwarmEvent values as far as handle() looks at them:
\*   Message      SwarmEvent::Behaviour(Gossipsub(GossipsubEvent::Message{..}))
\*   GossipOther  SwarmEvent::Behaviour(Gossipsub(<any other gossipsub event>))
\*   BehaviourOther  SwarmEvent::Behaviour(<any other behaviour event>)
\*   SwarmOther   any SwarmEvent that is not Behaviour
Events ==
    {[kind |-> "Message", topic |-> t, source |-> p] : t \in Topics, p \in Peers}
    \cup {[kind |-> k, topic |-> "-", source |-> "-"] :
             k \in {"GossipOther", "BehaviourOther", "SwarmOther"}}

VARIABLES
    interval,       \* self.interval
    listen_only,    \* self.listen_only
    topic,          \* self.topic
    is_started,     \* self.is_started
    stop_signal,    \* the bool inside self.stop_signal (shared by every clone)
    subscribed,     \* gossipsub's subscription to self.topic
    swarm_lock,     \* tasks holding the swarm mutex
    signal_lock,    \* tasks holding the stop_signal mutex
    pc,             \* position of every task
    timer,          \* time left to the next tick of each scheduler's time::interval:
                    \* its deadline minus the current time, <= 0 when the tick is due
    exit,           \* where Main's last call left its method ("pending" while inside)
    event,          \* the event handle() is working on, NoEvent outside handle()
    pub_result,     \* result of the last gossipsub.publish call, "none" before the first
    spawns_in_row,  \* tokio::spawn calls since Main last called anything but start()
    since_start     \* clock units passed since start() last spawned a scheduler,
                    \* counted up to `interval`

vars == <<interval, listen_only, topic, is_started, stop_signal, subscribed,
          swarm_lock, signal_lock, pc, timer, exit, event,
          pub_result, spawns_in_row, since_start>>

config == <<interval, listen_only, topic>>

\* How a call ended, from the place where it left the method:
\*   start_already_started      `return Ok(())` of `if self.is_started`
\*   start_listen_only          `return Ok(())` of `if self.listen_only`
\*   start_spawned              the final `Ok(())` of start()
\*   start_subscribe_rejected   subscribe() gave Err: `.unwrap()` panics
\*   stop_not_started           `return Ok(())` of `if !self.is_started`
\*   stop_unsubscribed          the final `Ok(())` of stop()
\*   stop_unsubscribe_rejected  unsubscribe() gave Err: `.unwrap()` panics
\*   handle_not_started         `return` of `if !self.is_started`
\*   handle_other_event         the event is no gossipsub Message: falls through
\*   handle_other_topic         `return` of the topic comparison
\*   handle_self                `return` of `if local_peer_id == propagation_source`
\*   handle_dial                `todo!("dial peer")` reached: it panics
Result(x) ==
    CASE x \in {"start_already_started", "start_listen_only", "start_spawned",
                "stop_not_started", "stop_unsubscribed"} -> "Ok"
      [] x \in {"handle_not_started", "handle_other_event", "handle_other_topic",
                "handle_self"} -> "Returned"
      [] x \in {"start_subscribe_rejected", "stop_unsubscribe_rejected", "handle_dial"} -> "Panic"
      [] OTHER -> "None"

Spawned == {s \in Scheds : pc[s] # "unborn"}
Live == {s \in Scheds : pc[s] \notin {"unborn", "done"}}

Init ==
    /\ interval \in Intervals
    /\ listen_only \in BOOLEAN
    /\ topic = "T"
    /\ is_started = FALSE
    /\ stop_signal = FALSE
    /\ subscribed = FALSE
    /\ swarm_lock = {}
    /\ signal_lock = {}
    /\ pc = [t \in Tasks |-> IF t = Main THEN "idle" ELSE "unborn"]
    /\ timer = [s \in Scheds |-> 0]
    /\ exit = "none"
    /\ event = NoEvent
    /\ pub_result = "none"
    /\ spawns_in_row = 0
    /\ since_start = 0

\* ---- tokio::sync::Mutex ---------------------------------------------------
\* (mutation: a lock that is handed out while it is held)
Acquire_NoWait(lock, t) == lock' = lock \cup {t}

Acquire(lock, t) == lock = {} /\ lock' = lock \cup {t}
Release(lock, t) == lock' = lock \ {t}

\* ---- start() ------------------------------------------------------------
\* (mutation: the is_started check left out)
StartIsNoop_Missing == FALSE

\* `if self.is_started { return Ok(()) }`
StartIsNoop == is_started

\* (mutation: the listen_only check left out)
StartReturnsListenOnly_Missing == FALSE

\* `if self.listen_only { return Ok(()) }`
StartReturnsListenOnly == listen_only

\* (mutation: start() broadcasts before it subscribes)
StartCall_BroadcastFirst ==
    /\ pc[Main] = "idle"
    /\ (~is_started /\ ~listen_only) => Spawned # Scheds
    /\ IF is_started
          THEN /\ exit' = "start_already_started"
               /\ UNCHANGED pc
          ELSE /\ exit' = "pending"
               /\ pc' = [pc EXCEPT ![Main] = "broadcast_lock_id"]
    /\ UNCHANGED <<config, since_start, is_started, stop_signal, subscribed, swarm_lock,
                   signal_lock, timer, event, pub_result, spawns_in_row>>

\* start() up to its first .await.  A start() that will reach tokio::spawn
\* is explored only while a task of Scheds is still unborn.
StartCall ==
    /\ pc[Main] = "idle"
    /\ (~is_started /\ ~listen_only) => Spawned # Scheds
    /\ IF StartIsNoop
          THEN /\ exit' = "start_already_started"
               /\ UNCHANGED pc
          ELSE /\ exit' = "pending"
               /\ pc' = [pc EXCEPT ![Main] = "start_lock"]
    /\ UNCHANGED <<config, since_start, is_started, stop_signal, subscribed, swarm_lock,
                   signal_lock, timer, event, pub_result, spawns_in_row>>

\* `self.swarm.lock().await`
StartLock ==
    /\ pc[Main] = "start_lock"
    /\ Acquire(swarm_lock, Main)
    /\ pc' = [pc EXCEPT ![Main] = "start_subscribe"]
    /\ UNCHANGED <<config, since_start, is_started, stop_signal, subscribed, signal_lock,
                   timer, exit, event, pub_result,
                   spawns_in_row>>

\* `.subscribe(&self.topic).unwrap(); self.is_started = true;` and the
\* listen_only return.  The guard is a temporary: it is dropped at the end of
\* the statement, also when unwrap() panics.
StartSubscribe ==
    /\ pc[Main] = "start_subscribe"
    /\ Release(swarm_lock, Main)
    /\ \E accepted \in BOOLEAN :
          IF accepted
             THEN /\ subscribed' = TRUE
                  /\ is_started' = TRUE
                  /\ IF StartReturnsListenOnly
                        THEN /\ pc' = [pc EXCEPT ![Main] = "idle"]
                             /\ exit' = "start_listen_only"
                        ELSE /\ pc' = [pc EXCEPT ![Main] = "broadcast_lock_id"]
                             /\ UNCHANGED exit
             ELSE /\ pc' = [pc EXCEPT ![Main] = "panicked"]
                  /\ exit' = "start_subscribe_rejected"
                  /\ UNCHANGED <<subscribed, is_started>>
    /\ UNCHANGED <<config, since_start, stop_signal, signal_lock, timer, event,
                   pub_result, spawns_in_row>>

\* ---- broadcast(), called by start() and by the scheduler -------------------
\* first `swarm.lock().await`
BroadcastLockId(t) ==
    /\ pc[t] = "broadcast_lock_id"
    /\ Acquire(swarm_lock, t)
    /\ pc' = [pc EXCEPT ![t] = "broadcast_read_id"]
    /\ UNCHANGED <<config, since_start, is_started, stop_signal, subscribed, signal_lock,
                   timer, exit, event, pub_result,
                   spawns_in_row>>

\* (mutation: the guard bound to a variable, so held to the end of broadcast())
BroadcastReadId_KeepsGuard(t) ==
    /\ pc[t] = "broadcast_read_id"
    /\ pc' = [pc EXCEPT ![t] = "broadcast_lock_publish"]
    /\ UNCHANGED <<config, since_start, is_started, stop_signal, subscribed, swarm_lock,
                   signal_lock, timer, exit, event, pub_result, spawns_in_row>>

\* `.local_peer_id().to_bytes()`; the guard is dropped with the statement
BroadcastReadId(t) ==
    /\ pc[t] = "broadcast_read_id"
    /\ Release(swarm_lock, t)
    /\ pc' = [pc EXCEPT ![t] = "broadcast_lock_publish"]
    /\ UNCHANGED <<config, since_start, is_started, stop_signal, subscribed, signal_lock,
                   timer, exit, event, pub_result,
                   spawns_in_row>>

\* second `swarm.lock().await`
BroadcastLockPublish(t) ==
    /\ pc[t] = "broadcast_lock_publish"
    /\ Acquire(swarm_lock, t)
    /\ pc' = [pc EXCEPT ![t] = "broadcast_publish"]
    /\ UNCHANGED <<config, since_start, is_started, stop_signal, subscribed, signal_lock,
                   timer, exit, event, pub_result,
                   spawns_in_row>>

\* (mutation: `.publish(..).unwrap()`, a failed publish panics the task)
BroadcastPublish_Unwrap(t) ==
    /\ pc[t] = "broadcast_publish"
    /\ Release(swarm_lock, t)
    /\ \E r \in {"Ok", "Err"} :
          /\ pub_result' = r
          /\ pc' = [pc EXCEPT ![t] = IF r = "Err"
                                        THEN (IF t = Main THEN "panicked" ELSE "done")
                                        ELSE (IF t = Main THEN "start_spawn" ELSE "select")]
    /\ UNCHANGED <<config, since_start, is_started, stop_signal, subscribed, signal_lock,
                   timer, exit, event, spawns_in_row>>

\* `let _ = ... .publish(topic.clone(), encoded_peer_id);` the Result is dropped.
\* broadcast() returns: start() goes on to tokio::spawn, the scheduler's tick
\* branch ends and its loop is back at select!.
BroadcastPublish(t) ==
    /\ pc[t] = "broadcast_publish"
    /\ Release(swarm_lock, t)
    /\ \E r \in {"Ok", "Err"} : pub_result' = r
    /\ pc' = [pc EXCEPT ![t] = IF t = Main THEN "start_spawn" ELSE "select"]
    /\ UNCHANGED <<config, since_start, is_started, stop_signal, subscribed, signal_lock,
                   timer, exit, event, spawns_in_row>>

\* ---- start(), after broadcast(): tokio::spawn and `Ok(())` -----------------
\* The new task gets clones of self.stop_signal and self.swarm.  Its first
\* statement, `time::interval(interval)`, is taken with the spawn: the first
\* tick of a tokio interval completes at once, so its deadline is the current time.
NewSched == CHOOSE s \in Scheds \ Spawned : \A o \in Scheds \ Spawned : s <= o

StartSpawn ==
    /\ pc[Main] = "start_spawn"
    /\ Spawned # Scheds
    /\ pc' = [pc EXCEPT ![Main] = "idle", ![NewSched] = "select"]
    /\ timer' = [timer EXCEPT ![NewSched] = 0]
    /\ exit' = "start_spawned"
    /\ spawns_in_row' = spawns_in_row + 1
    /\ since_start' = 0
    /\ UNCHANGED <<config, is_started, stop_signal, subscribed, swarm_lock,
                   signal_lock, event, pub_result>>

\* ---- the task spawned by start() ----------------------------------------
\* select!: `_ = interval.tick() =>`; the next deadline is one period after
\* this one.
SchedTick(s) ==
    /\ pc[s] = "select"
    /\ timer[s] <= 0
    /\ timer' = [timer EXCEPT ![s] = timer[s] + interval]
    /\ pc' = [pc EXCEPT ![s] = "tick_lock"]
    /\ UNCHANGED <<config, since_start, is_started, stop_signal, subscribed, swarm_lock,
                   signal_lock, exit, event, pub_result,
                   spawns_in_row>>

\* `stop_signal.lock().await` of the tick branch
SchedTickLock(s) ==
    /\ pc[s] = "tick_lock"
    /\ Acquire(signal_lock, s)
    /\ pc' = [pc EXCEPT ![s] = "tick_check"]
    /\ UNCHANGED <<config, since_start, is_started, stop_signal, subscribed, swarm_lock,
                   timer, exit, event, pub_result,
                   spawns_in_row>>

\* SchedTickCheck without the break: the tick broadcasts whatever the signal
SchedTickCheck_IgnoresSignal(s) ==
    /\ pc[s] = "tick_check"
    /\ Release(signal_lock, s)
    /\ pc' = [pc EXCEPT ![s] = "broadcast_lock_id"]
    /\ UNCHANGED <<config, since_start, is_started, stop_signal, subscribed, swarm_lock,
                   timer, exit, event, pub_result, spawns_in_row>>

\* `if *stop_signal.lock().await { break; }` and on to broadcast()
SchedTickCheck(s) ==
    /\ pc[s] = "tick_check"
    /\ Release(signal_lock, s)
    /\ pc' = [pc EXCEPT ![s] = IF stop_signal THEN "done" ELSE "broadcast_lock_id"]
    /\ timer' = [timer EXCEPT ![s] = IF stop_signal THEN 0 ELSE @]
    /\ UNCHANGED <<config, since_start, is_started, stop_signal, subscribed, swarm_lock,
                   exit, event, pub_result,
                   spawns_in_row>>

\* select!: `_ = tokio::signal::ctrl_c() =>`, an interrupt delivered while the
\* task waits in select! with its timer pending.  The interval is dropped
\* with the break that follows.
SchedCtrlC(s) ==
    /\ pc[s] = "select"
    /\ timer[s] > 0
    /\ pc' = [pc EXCEPT ![s] = "ctrl_c_lock"]
    /\ timer' = [timer EXCEPT ![s] = 0]
    /\ UNCHANGED <<config, since_start, is_started, stop_signal, subscribed, swarm_lock,
                   signal_lock, exit, event, pub_result, spawns_in_row>>

\* `stop_signal.lock().await` of the ctrl_c branch
SchedCtrlCLock(s) ==
    /\ pc[s] = "ctrl_c_lock"
    /\ Acquire(signal_lock, s)
    /\ pc' = [pc EXCEPT ![s] = "ctrl_c_set"]
    /\ UNCHANGED <<config, since_start, is_started, stop_signal, subscribed, swarm_lock,
                   timer, exit, event, pub_result,
                   spawns_in_row>>

\* (mutation: the `break` after setting the signal left out)
SchedCtrlCSet_NoBreak(s) ==
    /\ pc[s] = "ctrl_c_set"
    /\ Release(signal_lock, s)
    /\ stop_signal' = TRUE
    /\ pc' = [pc EXCEPT ![s] = "select"]
    /\ UNCHANGED <<config, since_start, is_started, subscribed, swarm_lock, timer,
                   exit, event, pub_result, spawns_in_row>>

\* `*stop_signal.lock().await = true; break;`
SchedCtrlCSet(s) ==
    /\ pc[s] = "ctrl_c_set"
    /\ Release(signal_lock, s)
    /\ stop_signal' = TRUE
    /\ pc' = [pc EXCEPT ![s] = "done"]
    /\ UNCHANGED <<config, since_start, is_started, subscribed, swarm_lock, timer, exit, event, pub_result, spawns_in_row>>

\* ---- stop() -------------------------------------------------------------
\* (mutation: the is_started check left out)
StopIsNoop_Missing == FALSE

\* `if !self.is_started { return Ok(()) }`
StopIsNoop == ~is_started

StopCall ==
    /\ pc[Main] = "idle"
    /\ spawns_in_row' = 0
    /\ IF StopIsNoop
          THEN /\ exit' = "stop_not_started"
               /\ UNCHANGED pc
          ELSE /\ exit' = "pending"
               /\ pc' = [pc EXCEPT ![Main] = "stop_lock"]
    /\ UNCHANGED <<config, since_start, is_started, stop_signal, subscribed, swarm_lock,
                   signal_lock, timer, event, pub_result>>

\* `self.swarm.lock().await`
StopLock ==
    /\ pc[Main] = "stop_lock"
    /\ Acquire(swarm_lock, Main)
    /\ pc' = [pc EXCEPT ![Main] = "stop_unsubscribe"]
    /\ UNCHANGED <<config, since_start, is_started, stop_signal, subscribed, signal_lock,
                   timer, exit, event, pub_result,
                   spawns_in_row>>

\* (mutation: `self.is_started = false` left out)
StopUnsubscribe_KeepsStarted ==
    /\ pc[Main] = "stop_unsubscribe"
    /\ Release(swarm_lock, Main)
    /\ \E accepted \in BOOLEAN :
          IF accepted
             THEN /\ subscribed' = FALSE
                  /\ pc' = [pc EXCEPT ![Main] = "idle"]
                  /\ exit' = "stop_unsubscribed"
             ELSE /\ pc' = [pc EXCEPT ![Main] = "panicked"]
                  /\ exit' = "stop_unsubscribe_rejected"
                  /\ UNCHANGED subscribed
    /\ UNCHANGED <<config, since_start, is_started, stop_signal, signal_lock, timer, event,
                   pub_result, spawns_in_row>>

\* `.unsubscribe(&self.topic).unwrap(); self.is_started = false; Ok(())`
StopUnsubscribe ==
    /\ pc[Main] = "stop_unsubscribe"
    /\ Release(swarm_lock, Main)
    /\ \E accepted \in BOOLEAN :
          IF accepted
             THEN /\ subscribed' = FALSE
                  /\ is_started' = FALSE
                  /\ pc' = [pc EXCEPT ![Main] = "idle"]
                  /\ exit' = "stop_unsubscribed"
             ELSE /\ pc' = [pc EXCEPT ![Main] = "panicked"]
                  /\ exit' = "stop_unsubscribe_rejected"
                  /\ UNCHANGED <<subscribed, is_started>>
    /\ UNCHANGED <<config, since_start, stop_signal, signal_lock, timer, event,
                   pub_result, spawns_in_row>>

\* ---- SwarmEventHandler::handle() ----------------------------------------
\* (mutation: the is_started check left out)
HandleIgnoresNotStarted_Missing == FALSE

\* `if !self.is_started { return; }`
HandleIgnoresNotStarted == ~is_started

\* `if let SwarmEvent::Behaviour(event)`, `GossipBehaviourEvent::Gossipsub(event)`,
\* `if let GossipsubEvent::Message { .. }`
IsMessage(e) == e.kind = "Message"

\* (mutation: the topics compared without regard to case)
Lower(t) == IF t = "T" THEN "t" ELSE t
TopicDiffers_IgnoringCase(e) == Lower(topic) # Lower(e.topic)

\* `self.topic.to_string() != message.topic.to_string()`: an exact,
\* case-sensitive comparison of the two strings
TopicDiffers(e) == topic # e.topic

\* (mutation: the comparison inverted)
IsFromSelf_Inverted(e) == LocalPeer # e.source

\* `local_peer_id == propagation_source`
IsFromSelf(e) == LocalPeer = e.source

\* handle() up to its first .await
HandleCall(e) ==
    /\ pc[Main] = "idle"
    /\ spawns_in_row' = 0
    /\ IF HandleIgnoresNotStarted
          THEN exit' = "handle_not_started" /\ UNCHANGED <<pc, event>>
          ELSE IF ~IsMessage(e)
          THEN exit' = "handle_other_event" /\ UNCHANGED <<pc, event>>
          ELSE IF TopicDiffers(e)
          THEN exit' = "handle_other_topic" /\ UNCHANGED <<pc, event>>
          ELSE /\ exit' = "pending"
               /\ event' = e
               /\ pc' = [pc EXCEPT ![Main] = "handle_lock"]
    /\ UNCHANGED <<config, since_start, is_started, stop_signal, subscribed, swarm_lock,
                   signal_lock, timer, pub_result>>

\* `let locked_swarm = self.swarm.lock().await;`
HandleLock ==
    /\ pc[Main] = "handle_lock"
    /\ Acquire(swarm_lock, Main)
    /\ pc' = [pc EXCEPT ![Main] = "handle_compare"]
    /\ UNCHANGED <<config, since_start, is_started, stop_signal, subscribed, signal_lock,
                   timer, exit, event, pub_result,
                   spawns_in_row>>

\* `if local_peer_id == propagation_source { return; }`, println!, and
\* `todo!("dial peer")`, which panics; locked_swarm is dropped either way.
\* No call to the swarm's dial is made on any path.
HandleCompare ==
    /\ pc[Main] = "handle_compare"
    /\ Release(swarm_lock, Main)
    /\ event' = NoEvent
    /\ IF IsFromSelf(event)
          THEN /\ exit' = "handle_self"
               /\ pc' = [pc EXCEPT ![Main] = "idle"]
          ELSE /\ exit' = "handle_dial"
               /\ pc' = [pc EXCEPT ![Main] = "panicked"]
    /\ UNCHANGED <<config, since_start, is_started, stop_signal, subscribed, signal_lock,
                   timer, pub_result, spawns_in_row>>

\* ---- time ---------------------------------------------------------------
\* One clock unit passes: every interval's deadline comes one unit closer.
\* A tick may be taken any time after its deadline (a task can be delayed);
\* time is explored until some tick is MaxLag units overdue.
HasInterval(s) == pc[s] \notin {"unborn", "done", "ctrl_c_lock", "ctrl_c_set"}

Advance ==
    /\ \E s \in Scheds : HasInterval(s)
    /\ \A s \in Scheds : HasInterval(s) => timer[s] > -MaxLag
    /\ timer' = [s \in Scheds |-> IF HasInterval(s) THEN timer[s] - 1 ELSE timer[s]]
    /\ since_start' = IF since_start < interval THEN since_start + 1 ELSE since_start
    /\ UNCHANGED <<config, is_started, stop_signal, subscribed, swarm_lock,
                   signal_lock, pc, exit, event, pub_result, spawns_in_row>>

Next ==
    \/ StartCall
    \/ StartLock
    \/ StartSubscribe
    \/ StartSpawn
    \/ StopCall
    \/ StopLock
    \/ StopUnsubscribe
    \/ \E e \in Events : HandleCall(e)
    \/ HandleLock
    \/ HandleCompare
    \/ \E t \in Tasks : BroadcastLockId(t)
    \/ \E t \in Tasks : BroadcastReadId(t)
    \/ \E t \in Tasks : BroadcastLockPublish(t)
    \/ \E t \in Tasks : BroadcastPublish(t)
    \/ \E s \in Scheds : SchedTick(s)
    \/ \E s \in Scheds : SchedTickLock(s)
    \/ \E s \in Scheds : SchedTickCheck(s)
    \/ \E s \in Scheds : SchedCtrlC(s)
    \/ \E s \in Scheds : SchedCtrlCLock(s)
    \/ \E s \in Scheds : SchedCtrlCSet(s)
    \/ Advance

Spec == Init /\ [][Next]_vars

\* The runtime keeps polling a spawned task that can run, the clock keeps
\* going, and no task stops between taking a mutex and the end of the
\* statement that holds it (there is no await in between).  tokio's Mutex
\* serves its waiters in order, so a task that waits for one gets it.
\* Nothing makes Main call start(), stop() or handle(), and nothing makes an
\* interrupt arrive.
SchedRuns(s) ==
    \/ SchedTick(s)
    \/ SchedTickCheck(s)
    \/ SchedCtrlCSet(s)
    \/ BroadcastReadId(s)
    \/ BroadcastPublish(s)

MainHoldsLock ==
    \/ StartSubscribe
    \/ StopUnsubscribe
    \/ HandleCompare
    \/ BroadcastReadId(Main)
    \/ BroadcastPublish(Main)

Fairness ==
    /\ WF_vars(Advance)
    /\ WF_vars(MainHoldsLock)
    /\ \A s \in Scheds :
        /\ WF_vars(SchedRuns(s))
        /\ SF_vars(SchedTickLock(s))
        /\ SF_vars(SchedCtrlCLock(s))
        /\ SF_vars(BroadcastLockId(s))
        /\ SF_vars(BroadcastLockPublish(s))

FairSpec == Spec /\ Fairness

\* ==== claims ==============================================================
InStart == pc[Main] \in {"start_lock", "start_subscribe", "start_spawn"}
InBroadcast(t) == pc[t] \in {"broadcast_lock_id", "broadcast_read_id",
                             "broadcast_lock_publish", "broadcast_publish"}
InHandle == pc[Main] \in {"handle_lock", "handle_compare"}

\* What a call that returns at once may change: only the record of how Main's
\* last call ended.
OnlyExitChanges ==
    UNCHANGED <<config, since_start, is_started, stop_signal, subscribed, swarm_lock,
                signal_lock, pc, timer, event, pub_result>>

\* C1: start() on a started instance returns Ok at once and does nothing else
\* (no lock taken, no subscribe, no publish, no spawn); a start() that
\* returned Ok leaves is_started true, and start() calls in a row spawn at
\* most one scheduler between them.
C1_StartIdempotent ==
    /\ [][(StartCall /\ is_started) =>
             (exit' = "start_already_started" /\ OnlyExitChanges
                /\ UNCHANGED spawns_in_row)]_vars
    /\ [](exit \in {"start_already_started", "start_listen_only", "start_spawned"}
             => is_started)
    /\ [](spawns_in_row <= 1)

\* start(), then start() again: the second returned at the is_started check,
\* one scheduler was spawned by the two.
C1_Witness ==
    /\ exit = "start_already_started"
    /\ spawns_in_row = 1
    /\ Cardinality(Spawned) = 1
    /\ is_started

\* C2 (as claimed): at most one scheduler task is live at any time.
C2_AtMostOneLiveScheduler == Cardinality(Live) <= 1

\* C3 (as claimed): once stop() has unsubscribed a broadcasting instance, the
\* stop signal is set.
C3_StopSetsStopSignal ==
    (exit = "stop_unsubscribed" /\ ~listen_only) => stop_signal

\* C4: in listen-only mode no scheduler is ever spawned, nothing is ever
\* published and start() never enters broadcast(); a start() that returned Ok
\* has subscribed and set is_started.
C4_ListenOnlyNeverPublishes ==
    listen_only =>
        /\ Spawned = {}
        /\ pub_result = "none"
        /\ ~InBroadcast(Main) /\ pc[Main] # "start_spawn"
        /\ exit \in {"start_listen_only", "start_already_started"}
              => (is_started /\ subscribed)

\* a listen-only start() has returned Ok
C4_Witness ==
    /\ listen_only
    /\ exit = "start_listen_only"
    /\ is_started /\ subscribed
    /\ pc[Main] = "idle"

\* C5: stop() on an instance that is not started returns Ok at once: it takes
\* no lock and leaves is_started, the subscription and the stop signal alone.
C5_StopNotStartedIsNoop ==
    /\ [][(StopCall /\ ~is_started) =>
             (exit' = "stop_not_started" /\ OnlyExitChanges)]_vars
    /\ [](exit = "stop_not_started" => (~is_started /\ pc[Main] = "idle"))

\* stop() before any start(): nothing was ever subscribed or spawned
C5_Witness ==
    /\ exit = "stop_not_started"
    /\ ~listen_only
    /\ Spawned = {}
    /\ ~is_started /\ ~subscribed /\ ~stop_signal

\* C6: a message whose propagation source is the local peer never takes
\* handle() to the dial: whatever the state, the call returns, at one of the
\* checks before the lock or at the comparison with local_peer_id, and the
\* swarm lock is free again.
C6_SelfMessageNeverDials ==
    /\ [][\A e \in Events :
            (e.kind = "Message" /\ e.source = LocalPeer /\ HandleCall(e)) =>
               (exit' \in {"handle_not_started", "handle_other_topic", "pending"})]_vars
    /\ [][(HandleCompare /\ event.source = LocalPeer) =>
             (exit' = "handle_self" /\ pc'[Main] = "idle" /\ Main \notin swarm_lock')]_vars
    /\ [](exit = "handle_self" => pc[Main] = "idle")

\* the handler returned at the comparison with local_peer_id
C6_Witness ==
    /\ exit = "handle_self"
    /\ is_started
    /\ pc[Main] = "idle"
    /\ swarm_lock \cap {Main} = {}

\* C7: a message on another topic makes handle() return at once: it never
\* waits for or holds the swarm lock (where local_peer_id is read) and never
\* reaches the dial.
C7_OtherTopicNeverDials ==
    /\ [][\A e \in Events :
            (e.kind = "Message" /\ e.topic # topic /\ HandleCall(e)) =>
               (exit' \in {"handle_not_started", "handle_other_topic"}
                  /\ OnlyExitChanges)]_vars
    /\ [](InHandle => event.topic = topic)

\* a started handler returned at the topic comparison
C7_Witness ==
    /\ exit = "handle_other_topic"
    /\ is_started
    /\ pc[Main] = "idle"

\* C8: while is_started is false handle() returns at once for every event:
\* no lock, no state change, no dial.
C8_NotStartedIgnoresEvents ==
    /\ [][\A e \in Events :
            (~is_started /\ HandleCall(e)) =>
               (exit' = "handle_not_started" /\ OnlyExitChanges)]_vars
    /\ [](InHandle => is_started)

\* an event handled after stop(), with the scheduler of the earlier start()
\* still there
C8_Witness ==
    /\ exit = "handle_not_started"
    /\ ~is_started
    /\ Spawned # {}

\* C9 (as claimed): a message that passes every filter gets its dial request
\* and handle() returns normally.
C9_PassingMessageDialsAndReturns ==
    exit = "handle_dial" => (Result(exit) = "Returned" /\ pc[Main] = "idle")

\* C10 (as claimed): a rejected subscribe is returned by start() as an error
\* value, the task goes on, is_started stays false, nothing is published or
\* spawned by that start().
C10_SubscribeErrorReturned ==
    exit = "start_subscribe_rejected" =>
        (Result(exit) = "Err" /\ pc[Main] = "idle" /\ ~is_started)

\* C11 (as claimed): a rejected unsubscribe is returned by stop() as an error
\* value, the task goes on and is_started stays true.
C11_UnsubscribeErrorReturned ==
    exit = "stop_unsubscribe_rejected" =>
        (Result(exit) = "Err" /\ pc[Main] = "idle" /\ is_started)

\* C13: start() is in broadcast() or at tokio::spawn only with its subscribe
\* done (subscribed, is_started set), and a scheduler comes into being only
\* then, at its select!, before any broadcast of its own.
C13_SubscribeBeforeBroadcast ==
    /\ []((InBroadcast(Main) \/ pc[Main] = "start_spawn")
             => (subscribed /\ is_started))
    /\ [][\A s \in Scheds :
            (pc[s] = "unborn" /\ pc'[s] # "unborn") =>
               (subscribed /\ is_started /\ pc[Main] = "start_spawn"
                  /\ pc'[s] = "select")]_vars

\* the scheduler of a completed start() is about to publish
C13_Witness ==
    /\ exit = "start_spawned"
    /\ pub_result # "none"
    /\ \E s \in Scheds : pc[s] = "broadcast_publish"

\* C14: a publish that fails leaves its task where a publish that succeeds
\* leaves it: start() goes on to tokio::spawn and returns Ok, the scheduler
\* is back at select! and, at its next tick with the stop signal unset,
\* enters broadcast() again.
C14_PublishFailureNotFatal ==
    /\ [][\A t \in Tasks :
            (BroadcastPublish(t) /\ pub_result' = "Err") =>
               pc'[t] = (IF t = Main THEN "start_spawn" ELSE "select")]_vars
    /\ [][(StartSpawn /\ pub_result = "Err") =>
             (exit' = "start_spawned" /\ pc'[Main] = "idle"
                /\ Cardinality(Spawned') = Cardinality(Spawned) + 1)]_vars
    /\ [][\A s \in Scheds :
            (SchedTickCheck(s) /\ pub_result = "Err" /\ ~stop_signal) =>
               pc'[s] = "broadcast_lock_id"]_vars

\* after a failed publish, start() has returned Ok and its scheduler is
\* about to publish again
C14_Witness ==
    /\ pub_result = "Err"
    /\ exit = "start_spawned"
    /\ \E s \in Scheds : pc[s] = "broadcast_publish"

\* C16: a scheduler that took the ctrl_c branch goes on to nothing but setting
\* the stop signal and ending: it never enters broadcast() again, the signal
\* is true when it ends, and an ended scheduler stays ended.
C16_CtrlCSetsSignalAndEnds ==
    [][\A s \in Scheds :
         /\ SchedCtrlC(s) => pc'[s] = "ctrl_c_lock"
         /\ pc[s] = "ctrl_c_lock" => pc'[s] \in {"ctrl_c_lock", "ctrl_c_set"}
         /\ pc[s] = "ctrl_c_set" =>
               /\ pc'[s] \in {"ctrl_c_set", "done"}
               /\ pc'[s] = "done" => stop_signal'
         /\ pc[s] = "done" => pc'[s] = "done"]_vars

\* the only scheduler ever spawned has ended with the signal set: by its own
\* ctrl_c branch, the one place that sets it
C16_Witness ==
    /\ Spawned = {1}
    /\ pc[1] = "done"
    /\ stop_signal

\* C17 (as claimed): the stop signal a new scheduler is bound to is false when
\* start() spawns it.
C17_FreshStopSignal == [][StartSpawn => ~stop_signal']_vars

\* pcs at which a task holds the swarm mutex / waits for it, holds the
\* stop-signal mutex / waits for it
SwarmHoldPcs == {"start_subscribe", "stop_unsubscribe", "handle_compare",
                 "broadcast_read_id", "broadcast_publish"}
SwarmWaitPcs == {"start_lock", "stop_lock", "handle_lock",
                 "broadcast_lock_id", "broadcast_lock_publish"}
SignalHoldPcs == {"tick_check", "ctrl_c_set"}
SignalWaitPcs == {"tick_lock", "ctrl_c_lock"}

\* C18: at most one task holds the swarm mutex, and a task is at subscribe,
\* unsubscribe, publish, the read of local_peer_id (in broadcast() or in
\* handle()) exactly while it holds it.
C18_SwarmMutualExclusion ==
    /\ Cardinality(swarm_lock) <= 1
    /\ \A t \in Tasks : t \in swarm_lock <=> pc[t] \in SwarmHoldPcs

\* a scheduler is in its critical section while stop() waits for the mutex
C18_Witness ==
    /\ pc[Main] = "stop_lock"
    /\ \E s \in Scheds : swarm_lock = {s} /\ pc[s] = "broadcast_publish"

\* C19: no task holds both mutexes, a task that waits for a mutex holds
\* none, a task outside start/stop/handle/broadcast/the tick holds none, and
\* a mutex that is waited for is free or held by a task whose next step
\* releases it: no state is a deadlock on the two mutexes.
C19_NoLockDeadlock ==
    /\ \A t \in Tasks :
          /\ ~(t \in swarm_lock /\ t \in signal_lock)
          /\ pc[t] \in SwarmWaitPcs \cup SignalWaitPcs
                => (t \notin swarm_lock /\ t \notin signal_lock)
          /\ pc[t] \in {"idle", "panicked", "start_spawn", "unborn", "select", "done"}
                => (t \notin swarm_lock /\ t \notin signal_lock)
    /\ (\E t \in Tasks : pc[t] \in SwarmWaitPcs)
          => (swarm_lock = {}
                \/ \E h \in swarm_lock : pc[h] \in SwarmHoldPcs /\ h \notin signal_lock)
    /\ (\E t \in Tasks : pc[t] \in SignalWaitPcs)
          => (signal_lock = {}
                \/ \E h \in signal_lock : pc[h] \in SignalHoldPcs /\ h \notin swarm_lock)

\* both mutexes are held, by different tasks, and a third task waits
C19_Witness ==
    /\ swarm_lock = {Main}
    /\ \E s, w \in Scheds :
          /\ s # w
          /\ signal_lock = {s}
          /\ pc[w] \in SwarmWaitPcs

\* C20: outside start() and stop(), is_started is true exactly when the topic
\* is subscribed; is_started and the subscription change only in the step of
\* start() that subscribes or the step of stop() that unsubscribes.
C20_StartedIffSubscribed ==
    /\ [](~(InStart \/ InBroadcast(Main)
              \/ pc[Main] \in {"stop_lock", "stop_unsubscribe"})
             => (is_started <=> subscribed))
    /\ [][(is_started' # is_started \/ subscribed' # subscribed) =>
             pc[Main] \in {"start_subscribe", "stop_unsubscribe"}]_vars

\* stop() has unsubscribed after a start() that spawned a scheduler
C20_Witness ==
    /\ exit = "stop_unsubscribed"
    /\ Spawned # {}
    /\ ~is_started /\ ~subscribed

\* the scheduler of the latest start(): tasks are spawned in ascending order
Newest == CHOOSE s \in Spawned : \A o \in Spawned : o <= s

\* C12 (as claimed): start() publishes once itself, and the scheduler it
\* spawned publishes only when at least one full interval has passed since
\* that start().
C12_FirstTickAfterInterval ==
    /\ [][StartSpawn => pub_result # "none"]_vars
    /\ [][\A s \in Scheds :
            (BroadcastPublish(s) /\ s = Newest) => since_start >= interval]_vars

\* C15: the stop signal, once true, stays true; a tick that finds it true
\* ends the scheduler without a broadcast, so a scheduler that is not already
\* inside a broadcast never starts one again, and under fairness every live
\* scheduler ends; a tick that finds it false goes through broadcast() once,
\* and the scheduler is back in its select! whatever publish returned.
C15_StopSignalEndsScheduler ==
    /\ [][stop_signal => stop_signal']_vars
    /\ [][\A s \in Scheds :
            SchedTickCheck(s) =>
                pc'[s] = IF stop_signal THEN "done" ELSE "broadcast_lock_id"]_vars
    /\ [][\A s \in Scheds :
            (stop_signal /\ ~InBroadcast(s)) => ~InBroadcast(s)']_vars
    /\ [][\A s \in Scheds :
            /\ (pc[s] # "tick_check" /\ pc'[s] = "broadcast_lock_id") => UNCHANGED pc[s]
            /\ BroadcastPublish(s) => pc'[s] = "select"
            /\ pc[s] = "done" => pc'[s] = "done"]_vars
    /\ \A s \in Scheds : (stop_signal /\ s \in Live) ~> (pc[s] = "done")

\* scheduler 1 has ended, the signal is set, and a tick of scheduler 2 holds
\* the signal's mutex to read it
C15_Witness ==
    /\ stop_signal
    /\ pc[1] = "done"
    /\ pc[2] = "tick_check"
    /\ signal_lock = {2}

====
